---- MODULE Spec2Model ----
(***************************************************************************)
(* The wholesale storefront of the Oops website (script.js, the revision   *)
(* with the mock authentication layer): the three localStorage records     *)
(* (session, user directory, cart), the auth and cart services working on  *)
(* them, the pricing computation, the checkout page and the DOM handlers   *)
(* that call them.                                                         *)
(*                                                                         *)
(* Representation of JavaScript values:                                    *)
(*   null                 the empty sequence Null                          *)
(*   an object            a record                                         *)
(*   an array             a sequence                                       *)
(*   "object or null"     a sequence of at most one record                 *)
(*   a return value       [truthy, object]: false and undefined are        *)
(*                        Falsy, true is True, an object is Object(o)      *)
(* A localStorage entry is [kind, val]: kind "null" (getItem gives null),  *)
(* "json" (the text JSON.stringify wrote for val) or "corrupt" (a text     *)
(* JSON.parse throws on).                                                  *)
(*                                                                         *)
(* Spec starts from an empty localStorage; SpecStore starts from a store   *)
(* that already holds a user, maybe a session, and a cart with quantities  *)
(* around the minimum order quantity and the discount tiers.               *)
(***************************************************************************)
EXTENDS Integers, Sequences, FiniteSets, TLC

VARIABLES
  localStorage,  \* the three persisted records, by key
  cartCount,     \* the number shown in #cartCount
  notice,        \* the last alert shown
  location,      \* window.location.href
  loaded,        \* the document's listeners are attached
  authLink,      \* text of #authLink
  pricing,       \* what updatePricingVisibility last showed
  cartView,      \* what renderCart last put into #cartContainer
  checkout,      \* what renderCheckout last did to #orderSummary and the form
  last           \* the operation that ran last, with its arguments and result

vars == <<localStorage, cartCount, notice, location, loaded, authLink,
          pricing, cartView, checkout, last>>

(***************************************************************************)
(* Bounds of the model and the input domains.                              *)
(***************************************************************************)
\* The model follows a cart while it is small (at most MaxUnits units in all)
\* or sits at the minimum order quantity (see InModel).
MaxUnits == 3

Emails == {"a@x.com", "b@x.com"}
Passwords == {"p", "q"}
Phones == {"555"}
Companies == {"Acme"}

\* the details a registration form can submit: complete ones, and ones with
\* one field left empty ("")
Complete ==
  [email : Emails, phone : Phones, company : Companies, password : Passwords]

Details ==
  Complete \cup
    { [d EXCEPT ![f] = ""] :
        f \in {"email", "phone", "company", "password"},
        d \in {c \in Complete : c.email = "a@x.com" /\ c.password = "p"} }

\* the products the pages offer (data-id, data-name, data-price of a button)
Products ==
  { [id |-> "kit", name |-> "Test Kit", price |-> 10],
    [id |-> "strip", name |-> "Test Strip", price |-> 4] }

ProductIds == {p.id : p \in Products}

\* ids a click can carry: the products' and one no cart item has
Ids == ProductIds \cup {"gone"}

\* quantity changes: the buttons' +1 / -1, a large decrement and a bulk entry
\* that takes a small cart to the minimum order quantity
Deltas == {-100, -1, 1, 48}

Pages == {"index.html", "cart.html", "checkout.html", "login.html"}

(***************************************************************************)
(* Persisted store                                                         *)
(***************************************************************************)
CART_KEY == "oopsCart"
USER_KEY == "oopsUsers"
SESSION_KEY == "oopsSession"

Keys == {CART_KEY, USER_KEY, SESSION_KEY}

Null == <<>>

Falsy == [truthy |-> FALSE, object |-> Null]
True == [truthy |-> TRUE, object |-> Null]
Object(o) == [truthy |-> TRUE, object |-> <<o>>]

NoItem == [kind |-> "null", val |-> Null]
Corrupt == [kind |-> "corrupt", val |-> Null]

\* JSON.stringify(v), as stored
Stringify(v) == [kind |-> "json", val |-> v]

\* variant: a parser that never throws and hands back what it can read
JSONparseLenient(raw) == [threw |-> FALSE, value |-> raw.val]

\* JSON.parse(text): throws on a corrupt text; JSON.parse(null) is null
JSONparse(raw) ==
  [threw |-> raw.kind = "corrupt",
   value |-> IF raw.kind = "json" THEN raw.val ELSE Null]

getSession(ls) ==
  LET r == JSONparse(ls[SESSION_KEY]) IN
    IF r.threw THEN Null ELSE r.value

saveSession(ls, session) ==
  IF session # Null
    THEN [ls EXCEPT ![SESSION_KEY] = Stringify(session)]
    ELSE [ls EXCEPT ![SESSION_KEY] = NoItem]

\* variant: "logged in" decided by the user directory instead of the session
isLoggedInByDirectory(ls) ==
  LET r == JSONparse(ls[USER_KEY]) IN ~r.threw /\ r.value # Null

isLoggedIn(ls) == getSession(ls) # Null

\* "|| []": a null parse result becomes the empty array
getUsers(ls) ==
  LET r == JSONparse(ls[USER_KEY]) IN
    IF r.threw THEN <<>> ELSE IF r.value = Null THEN <<>> ELSE r.value

saveUsers(ls, users) == [ls EXCEPT ![USER_KEY] = Stringify(users)]

getCart(ls) ==
  LET r == JSONparse(ls[CART_KEY]) IN
    IF r.threw THEN <<>> ELSE IF r.value = Null THEN <<>> ELSE r.value

saveCart(ls, cart) == [ls EXCEPT ![CART_KEY] = Stringify(cart)]

(***************************************************************************)
(* Array helpers                                                           *)
(***************************************************************************)
\* index of the first cart item with this id (Array.prototype.find), 0 if none
FindItem(cart, id) ==
  IF \E i \in 1..Len(cart) : cart[i].id = id
    THEN CHOOSE i \in 1..Len(cart) :
           /\ cart[i].id = id
           /\ \A j \in 1..(i - 1) : cart[j].id # id
    ELSE 0

\* cart.reduce((sum, item) => sum + item.quantity, 0)
RECURSIVE SumQuantity(_)
SumQuantity(cart) ==
  IF cart = <<>> THEN 0
  ELSE cart[Len(cart)].quantity + SumQuantity(SubSeq(cart, 1, Len(cart) - 1))

\* cart.filter((item) => item.id !== id)
RECURSIVE FilterOut(_, _)
FilterOut(cart, id) ==
  IF cart = <<>> THEN <<>>
  ELSE LET rest == FilterOut(Tail(cart), id) IN
         IF Head(cart).id # id THEN <<Head(cart)>> \o rest ELSE rest

Max(a, b) == IF a >= b THEN a ELSE b

(***************************************************************************)
(* Auth service                                                            *)
(***************************************************************************)
\* variant: registerUser without the duplicate-email check
registerUserNoDuplicateCheck(ls, d) ==
  LET users == getUsers(ls)
      missing == d.email = "" \/ d.phone = "" \/ d.company = "" \/ d.password = ""
      newUser == [email |-> d.email, phone |-> d.phone,
                  company |-> d.company, password |-> d.password]
  IN
    IF missing THEN [ls |-> ls, ret |-> Falsy]
    ELSE [ls |-> saveSession(saveUsers(ls, Append(users, newUser)),
                             <<[email |-> d.email]>>),
          ret |-> Object(newUser)]

\* variant: registerUser that leaves the session alone
registerUserNoAutoLogin(ls, d) ==
  LET users == getUsers(ls)
      missing == d.email = "" \/ d.phone = "" \/ d.company = "" \/ d.password = ""
      exists == \E i \in 1..Len(users) : users[i].email = d.email
      newUser == [email |-> d.email, phone |-> d.phone,
                  company |-> d.company, password |-> d.password]
  IN
    IF missing THEN [ls |-> ls, ret |-> Falsy]
    ELSE IF exists THEN [ls |-> ls, ret |-> Falsy]
    ELSE [ls |-> saveUsers(ls, Append(users, newUser)), ret |-> Object(newUser)]

\* variant: registerUser that puts the new user first (unshift instead of push)
registerUserUnshift(ls, d) ==
  LET users == getUsers(ls)
      missing == d.email = "" \/ d.phone = "" \/ d.company = "" \/ d.password = ""
      exists == \E i \in 1..Len(users) : users[i].email = d.email
      newUser == [email |-> d.email, phone |-> d.phone,
                  company |-> d.company, password |-> d.password]
  IN
    IF missing THEN [ls |-> ls, ret |-> Falsy]
    ELSE IF exists THEN [ls |-> ls, ret |-> Falsy]
    ELSE [ls |-> saveSession(saveUsers(ls, <<newUser>> \o users),
                             <<[email |-> d.email]>>),
          ret |-> Object(newUser)]

\* variant: registerUser whose duplicate check compares email and password
registerUserDuplicateByPassword(ls, d) ==
  LET users == getUsers(ls)
      missing == d.email = "" \/ d.phone = "" \/ d.company = "" \/ d.password = ""
      exists == \E i \in 1..Len(users) :
                  users[i].email = d.email /\ users[i].password = d.password
      newUser == [email |-> d.email, phone |-> d.phone,
                  company |-> d.company, password |-> d.password]
  IN
    IF missing THEN [ls |-> ls, ret |-> Falsy]
    ELSE IF exists THEN [ls |-> ls, ret |-> Falsy]
    ELSE [ls |-> saveSession(saveUsers(ls, Append(users, newUser)),
                             <<[email |-> d.email]>>),
          ret |-> Object(newUser)]

\* the result is [ls |-> the store afterwards, ret |-> the return value]
registerUser(ls, d) ==
  LET users == getUsers(ls)
      missing == d.email = "" \/ d.phone = "" \/ d.company = "" \/ d.password = ""
      exists == \E i \in 1..Len(users) : users[i].email = d.email
      newUser == [email |-> d.email, phone |-> d.phone,
                  company |-> d.company, password |-> d.password]
  IN
    IF missing THEN [ls |-> ls, ret |-> Falsy]
    ELSE IF exists THEN [ls |-> ls, ret |-> Falsy]
    ELSE [ls |-> saveSession(saveUsers(ls, Append(users, newUser)),
                             <<[email |-> d.email]>>),
          ret |-> Object(newUser)]

\* variant: the email and the password may match different users
loginUserAnyPassword(ls, email, password) ==
  LET users == getUsers(ls)
      user == /\ \E i \in 1..Len(users) : users[i].email = email
              /\ \E i \in 1..Len(users) : users[i].password = password
  IN
    IF user THEN [ls |-> saveSession(ls, <<[email |-> email]>>), ret |-> True]
    ELSE [ls |-> ls, ret |-> Falsy]

\* variant: loginUser that also empties the cart
loginUserClearsCart(ls, email, password) ==
  LET users == getUsers(ls)
      user == \E i \in 1..Len(users) :
                users[i].email = email /\ users[i].password = password
  IN
    IF user
      THEN [ls |-> saveCart(saveSession(ls, <<[email |-> email]>>), <<>>),
            ret |-> True]
      ELSE [ls |-> ls, ret |-> Falsy]

\* variant: loginUser that stores the session before it looks for the user
loginUserSessionFirst(ls, email, password) ==
  LET users == getUsers(ls)
      user == \E i \in 1..Len(users) :
                users[i].email = email /\ users[i].password = password
  IN
    [ls |-> saveSession(ls, <<[email |-> email]>>),
     ret |-> IF user THEN True ELSE Falsy]

loginUser(ls, email, password) ==
  LET users == getUsers(ls)
      user == \E i \in 1..Len(users) :
                users[i].email = email /\ users[i].password = password
  IN
    IF user THEN [ls |-> saveSession(ls, <<[email |-> email]>>), ret |-> True]
    ELSE [ls |-> ls, ret |-> Falsy]

\* variant: logoutUser that saves a session object instead of removing it
logoutUserSavesEmpty(ls) == saveSession(ls, <<[email |-> ""]>>)

logoutUser(ls) == saveSession(ls, Null)

(***************************************************************************)
(* Cart service                                                            *)
(***************************************************************************)
\* variant: the count taken as the number of cart lines
updateCartCountLines(ls) == Len(getCart(ls))

\* variant: the count added to what #cartCount already shows
updateCartCountAdding(ls) == cartCount + SumQuantity(getCart(ls))

\* the text updateCartCount writes into #cartCount, as a number
updateCartCount(ls) == SumQuantity(getCart(ls))

\* variant: addToCart that pushes a new line without looking for the id
addToCartItemsAlwaysPush(cart, product) ==
  Append(cart, [id |-> product.id, name |-> product.name,
                price |-> product.price, quantity |-> 1])

\* variant: addToCart that puts a new line first (unshift instead of push)
addToCartItemsUnshift(cart, product) ==
  LET i == FindItem(cart, product.id) IN
    IF i # 0
      THEN [cart EXCEPT ![i].quantity = @ + 1]
      ELSE <<[id |-> product.id, name |-> product.name,
              price |-> product.price, quantity |-> 1]>> \o cart

\* the cart addToCart saves for a logged-in caller
addToCartItems(cart, product) ==
  LET i == FindItem(cart, product.id) IN
    IF i # 0
      THEN [cart EXCEPT ![i].quantity = @ + 1]
      ELSE Append(cart, [id |-> product.id, name |-> product.name,
                         price |-> product.price, quantity |-> 1])

\* variant: removeFromCart that drops the last line, whatever its id
removeFromCartItemsPop(cart, id) ==
  IF cart = <<>> THEN <<>> ELSE SubSeq(cart, 1, Len(cart) - 1)

removeFromCartItems(cart, id) == FilterOut(cart, id)

\* variant: changeQuantity without Math.max
changeQuantityItemsNoFloor(cart, id, delta) ==
  LET i == FindItem(cart, id) IN
    [cart EXCEPT ![i].quantity = @ + delta]

\* variant: changeQuantity with a floor of 0
changeQuantityItemsFloorZero(cart, id, delta) ==
  LET i == FindItem(cart, id) IN
    [cart EXCEPT ![i].quantity = Max(0, @ + delta)]

\* the cart changeQuantity saves; only called when the item is found
changeQuantityItems(cart, id, delta) ==
  LET i == FindItem(cart, id) IN
    [cart EXCEPT ![i].quantity = Max(1, @ + delta)]

(***************************************************************************)
(* Pricing, as renderCart and renderCheckout compute it.  A discount rate  *)
(* is held in hundredths: 0.2 is 20, 0.15 is 15, 0.1 is 10, 0.05 is 5.     *)
(***************************************************************************)
MinOrder == 50

\* variant: the tiers' lower bounds taken as exclusive
cartDiscountRateExclusive(totalQty) ==
  IF totalQty > 500 THEN 20
  ELSE IF totalQty > 300 THEN 15
  ELSE IF totalQty > 200 THEN 10
  ELSE IF totalQty > 100 THEN 5
  ELSE 0

cartDiscountRate(totalQty) ==
  IF totalQty >= 500 THEN 20
  ELSE IF totalQty >= 300 THEN 15
  ELSE IF totalQty >= 200 THEN 10
  ELSE IF totalQty >= 100 THEN 5
  ELSE 0

checkoutDiscountRate(totalQty) ==
  IF totalQty >= 500 THEN 20
  ELSE IF totalQty >= 300 THEN 15
  ELSE IF totalQty >= 200 THEN 10
  ELSE IF totalQty >= 100 THEN 5
  ELSE 0

\* Money is held in cents.  The pages' prices are whole dollars, so every
\* amount computed below is a whole number of cents and the binary rounding
\* of the script's numbers never reaches the second decimal.
Cents(dollars) == dollars * 100

\* amount.toFixed(2): the digits before and after the decimal point
toFixed2(amount) == [whole |-> amount \div 100, frac |-> amount % 100]

RECURSIVE grandTotalRawUnitPrices(_)
\* variant: the cart's subtotal summed over unit prices, quantities ignored
grandTotalRawUnitPrices(cart) ==
  IF cart = <<>> THEN 0
  ELSE Cents(cart[Len(cart)].price)
         + grandTotalRawUnitPrices(SubSeq(cart, 1, Len(cart) - 1))

RECURSIVE grandTotalRaw(_)
\* renderCart: cart.reduce((sum, item) => sum + item.price * item.quantity, 0)
grandTotalRaw(cart) ==
  IF cart = <<>> THEN 0
  ELSE grandTotalRaw(SubSeq(cart, 1, Len(cart) - 1))
         + Cents(cart[Len(cart)].price) * cart[Len(cart)].quantity

\* renderCart: grandTotalRaw * discountRate
cartDiscountAmount(amount, discountRate) == (amount * discountRate) \div 100

\* variant: the checkout's subtotal that counts only the first line
subtotalFirstLine(cart) ==
  IF cart = <<>> THEN 0 ELSE Cents(cart[1].price) * cart[1].quantity

RECURSIVE subtotal(_)
\* renderCheckout: subtotal += item.price * item.quantity, over cart.forEach
subtotal(cart) ==
  IF cart = <<>> THEN 0
  ELSE subtotal(SubSeq(cart, 1, Len(cart) - 1))
         + Cents(cart[Len(cart)].price) * cart[Len(cart)].quantity

\* renderCheckout: subtotal * discountRate
checkoutDiscountAmount(amount, discountRate) == (amount * discountRate) \div 100

(***************************************************************************)
(* Views                                                                   *)
(***************************************************************************)
NoAmount == toFixed2(0)

NoCartView ==
  [kind |-> "", totalQty |-> 0, discountRate |-> 0, proceed |-> FALSE,
   grandTotalRaw |-> NoAmount, discountAmount |-> NoAmount,
   grandTotal |-> NoAmount]

\* the content renderCart writes into #cartContainer; the Subtotal and Bulk
\* Discount lines are part of it only when discountRate > 0
renderCart(ls) ==
  IF ~isLoggedIn(ls)
    THEN [NoCartView EXCEPT !.kind = "login"]
  ELSE LET cart == getCart(ls)
           totalQty == SumQuantity(cart)
           discountRate == cartDiscountRate(totalQty)
           raw == grandTotalRaw(cart)
           discountAmount == cartDiscountAmount(raw, discountRate)
       IN
         IF Len(cart) = 0
           THEN [NoCartView EXCEPT !.kind = "empty"]
           ELSE [kind |-> "table", totalQty |-> totalQty,
                 discountRate |-> discountRate,
                 proceed |-> ~(totalQty < MinOrder),
                 grandTotalRaw |-> toFixed2(raw),
                 discountAmount |-> toFixed2(discountAmount),
                 grandTotal |-> toFixed2(raw - discountAmount)]

NoCheckout ==
  [summary |-> "", formDisplay |-> "", submit |-> FALSE, totalQty |-> 0,
   discountRate |-> 0, subtotal |-> NoAmount, discountAmount |-> NoAmount,
   total |-> NoAmount]

Blocked(summary) ==
  [NoCheckout EXCEPT !.summary = summary, !.formDisplay = "none"]

\* variant: renderCheckout that also blocks an order of exactly MinOrder units
renderCheckoutOffByOne(ls) ==
  IF ~isLoggedIn(ls) THEN Blocked("login")
  ELSE LET cart == getCart(ls)
           totalQty == SumQuantity(cart)
           discountRate == checkoutDiscountRate(totalQty)
           sub == subtotal(cart)
           discountAmount == checkoutDiscountAmount(sub, discountRate)
       IN
         IF Len(cart) = 0 THEN Blocked("empty")
         ELSE IF totalQty <= MinOrder THEN Blocked("minimum")
         ELSE [summary |-> "order", formDisplay |-> "", submit |-> TRUE,
               totalQty |-> totalQty, discountRate |-> discountRate,
               subtotal |-> toFixed2(sub),
               discountAmount |-> toFixed2(discountAmount),
               total |-> toFixed2(sub - discountAmount)]

\* what renderCheckout does: the summary it writes (its Subtotal and Bulk
\* Discount lines only when discountRate > 0), the form's display style and
\* whether it attaches the submit listener
renderCheckout(ls) ==
  IF ~isLoggedIn(ls) THEN Blocked("login")
  ELSE LET cart == getCart(ls)
           totalQty == SumQuantity(cart)
           discountRate == checkoutDiscountRate(totalQty)
           sub == subtotal(cart)
           discountAmount == checkoutDiscountAmount(sub, discountRate)
       IN
         IF Len(cart) = 0 THEN Blocked("empty")
         ELSE IF totalQty < MinOrder THEN Blocked("minimum")
         ELSE [summary |-> "order", formDisplay |-> "", submit |-> TRUE,
               totalQty |-> totalQty, discountRate |-> discountRate,
               subtotal |-> toFixed2(sub),
               discountAmount |-> toFixed2(discountAmount),
               total |-> toFixed2(sub - discountAmount)]

updatePricingVisibility(ls) == IF isLoggedIn(ls) THEN "shown" ELSE "hidden"

\* renderCart is a no-op unless the document has #cartContainer
HasCartContainer == location = "cart.html"

refreshCart(ls) == IF HasCartContainer THEN renderCart(ls) ELSE cartView

\* The carts the model follows: the small ones, and the ones made of bulk and
\* small lines whose total is the minimum order quantity or one below it.
InModel(cart) ==
  LET totalQty == SumQuantity(cart) IN
    /\ \A i \in 1..Len(cart) :
         cart[i].quantity <= MaxUnits \/ cart[i].quantity >= MinOrder - 2
    /\ \/ totalQty <= MaxUnits
       \/ totalQty >= MinOrder - 1 /\ totalQty <= MinOrder

(***************************************************************************)
(* The state machine                                                       *)
(***************************************************************************)
\* the record of a call: the operation, the arguments kept of it and what it
\* returned
Call(op, args, ret) == [op |-> op, args |-> args, ret |-> ret]

\* an empty localStorage and a window whose first document is yet to load
Init ==
  /\ localStorage = [k \in Keys |-> NoItem]
  /\ cartCount = 0
  /\ notice = <<>>
  /\ location = "index.html"
  /\ loaded = FALSE
  /\ authLink = ""
  /\ pricing = ""
  /\ cartView = NoCartView
  /\ checkout = NoCheckout
  /\ last = Call("none", <<>>, Falsy)

\* the DOMContentLoaded listener, run for the document of page p
DOMContentLoaded(p) ==
  /\ location' = p
  /\ loaded' = TRUE
  /\ cartCount' = updateCartCount(localStorage)
  /\ pricing' = updatePricingVisibility(localStorage)
  /\ authLink' = IF isLoggedIn(localStorage) THEN "Logout" ELSE "Login"
  /\ cartView' = IF p = "cart.html" THEN renderCart(localStorage) ELSE NoCartView
  /\ checkout' = IF p = "checkout.html" THEN renderCheckout(localStorage)
                                        ELSE NoCheckout
  /\ last' = Call("DOMContentLoaded", <<>>, Falsy)
  /\ UNCHANGED <<localStorage, notice>>

RegisterUser(d) ==
  /\ loaded
  /\ LET r == registerUser(localStorage, d) IN
       /\ localStorage' = r.ls
       /\ last' = Call("registerUser", <<>>, r.ret)
  /\ UNCHANGED <<cartCount, notice, location, loaded, authLink, pricing,
                 cartView, checkout>>

LoginUser(email, password) ==
  /\ loaded
  /\ LET r == loginUser(localStorage, email, password) IN
       /\ localStorage' = r.ls
       /\ last' = Call("loginUser", <<>>, r.ret)
  /\ UNCHANGED <<cartCount, notice, location, loaded, authLink, pricing,
                 cartView, checkout>>

\* variant: a logout listener without saveCart([])
LogoutKeepsCart ==
  /\ loaded
  /\ authLink = "Logout"
  /\ LET ls == logoutUser(localStorage) IN
       /\ localStorage' = ls
       /\ cartCount' = updateCartCount(ls)
       /\ pricing' = updatePricingVisibility(ls)
  /\ location' = "index.html"
  /\ loaded' = FALSE
  /\ last' = Call("logout", <<>>, Falsy)
  /\ UNCHANGED <<notice, authLink, cartView, checkout>>

\* the click listener of the "Logout" link
Logout ==
  /\ loaded
  /\ authLink = "Logout"
  /\ LET ls == saveCart(logoutUser(localStorage), <<>>) IN
       /\ localStorage' = ls
       /\ cartCount' = updateCartCount(ls)
       /\ pricing' = updatePricingVisibility(ls)
  /\ location' = "index.html"
  /\ loaded' = FALSE
  /\ last' = Call("logout", <<>>, Falsy)
  /\ UNCHANGED <<notice, authLink, cartView, checkout>>

\* a click on an .add-to-cart button: addToCart(product)
AddToCart(product) ==
  /\ loaded
  /\ last' = Call("addToCart", <<>>, Falsy)
  /\ IF ~isLoggedIn(localStorage)
       THEN /\ notice' = <<"login">>
            /\ location' = "login.html"
            /\ loaded' = FALSE
            /\ UNCHANGED <<localStorage, cartCount>>
       ELSE LET cart == addToCartItems(getCart(localStorage), product)
                ls == saveCart(localStorage, cart)
            IN
              /\ InModel(cart)
              /\ localStorage' = ls
              /\ cartCount' = updateCartCount(ls)
              /\ notice' = <<"added", product.name>>
              /\ UNCHANGED <<location, loaded>>
  /\ UNCHANGED <<authLink, pricing, cartView, checkout>>

\* variant: removeFromCart that returns at once when there is no session
RemoveFromCartGated(id) ==
  /\ loaded
  /\ IF ~isLoggedIn(localStorage)
       THEN UNCHANGED <<localStorage, cartCount, cartView>>
       ELSE LET ls == saveCart(localStorage,
                               removeFromCartItems(getCart(localStorage), id))
            IN
              /\ localStorage' = ls
              /\ cartCount' = updateCartCount(ls)
              /\ cartView' = refreshCart(ls)
  /\ last' = Call("removeFromCart", <<>>, Falsy)
  /\ UNCHANGED <<notice, location, loaded, authLink, pricing, checkout>>

\* a click on a .remove-btn: removeFromCart(id)
RemoveFromCart(id) ==
  /\ loaded
  /\ LET ls == saveCart(localStorage,
                        removeFromCartItems(getCart(localStorage), id))
     IN
       /\ localStorage' = ls
       /\ cartCount' = updateCartCount(ls)
       /\ cartView' = refreshCart(ls)
  /\ last' = Call("removeFromCart", <<>>, Falsy)
  /\ UNCHANGED <<notice, location, loaded, authLink, pricing, checkout>>

\* changeQuantity(id, delta); the .qty-btn listener passes +1 or -1
ChangeQuantity(id, delta) ==
  /\ loaded
  /\ last' = Call("changeQuantity", <<delta>>, Falsy)
  /\ IF FindItem(getCart(localStorage), id) = 0
       THEN UNCHANGED <<localStorage, cartCount, cartView>>
       ELSE LET cart == changeQuantityItems(getCart(localStorage), id, delta)
                ls == saveCart(localStorage, cart)
            IN
              /\ InModel(cart)
              /\ localStorage' = ls
              /\ cartCount' = updateCartCount(ls)
              /\ cartView' = refreshCart(ls)
  /\ UNCHANGED <<notice, location, loaded, authLink, pricing, checkout>>

\* variant: a submit listener that thanks and redirects but keeps the cart
SubmitKeepsCart ==
  /\ loaded
  /\ checkout.submit
  /\ checkout.formDisplay # "none"
  /\ notice' = <<"thanks">>
  /\ cartCount' = updateCartCount(localStorage)
  /\ location' = "index.html"
  /\ loaded' = FALSE
  /\ last' = Call("submit", <<>>, Falsy)
  /\ UNCHANGED <<localStorage, authLink, pricing, cartView, checkout>>

\* the submit listener renderCheckout attached to #checkoutForm
Submit ==
  /\ loaded
  /\ checkout.submit
  /\ checkout.formDisplay # "none"
  /\ notice' = <<"thanks">>
  /\ LET ls == saveCart(localStorage, <<>>) IN
       /\ localStorage' = ls
       /\ cartCount' = updateCartCount(ls)
  /\ location' = "index.html"
  /\ loaded' = FALSE
  /\ last' = Call("submit", <<>>, Falsy)
  /\ UNCHANGED <<authLink, pricing, cartView, checkout>>

Next ==
  \/ \E p \in Pages : DOMContentLoaded(p)
  \/ \E d \in Details : RegisterUser(d)
  \/ \E e \in Emails, pw \in Passwords : LoginUser(e, pw)
  \/ Logout
  \/ \E product \in Products : AddToCart(product)
  \/ \E id \in Ids : RemoveFromCart(id)
  \/ \E id \in Ids, delta \in Deltas : ChangeQuantity(id, delta)
  \/ Submit

Spec == Init /\ [][Next]_vars

(***************************************************************************)
(* The same program started on a store that already holds data: a          *)
(* registered user, with or without a session, and a cart with quantities  *)
(* around the minimum order quantity and the discount tiers.               *)
(***************************************************************************)
SampleQty == {1, 49, 50, 60, 99, 100, 199, 200, 250, 299, 300, 499, 500}

Line(product, quantity) ==
  [id |-> product.id, name |-> product.name, price |-> product.price,
   quantity |-> quantity]

SampleCarts ==
  {<<>>}
    \cup {<<Line(p, q)>> : p \in Products, q \in SampleQty}
    \cup {<<Line(p, q), Line(r, 1)>> :
            <<p, r>> \in {pr \in Products \X Products : pr[1] # pr[2]},
            q \in SampleQty}

SampleUser ==
  [email |-> "a@x.com", phone |-> "555", company |-> "Acme", password |-> "p"]

InitStore ==
  /\ \E cart \in SampleCarts, session \in {Null, <<[email |-> "a@x.com"]>>} :
       localStorage =
         [k \in Keys |->
            IF k = CART_KEY THEN (IF cart = <<>> THEN NoItem ELSE Stringify(cart))
            ELSE IF k = USER_KEY THEN Stringify(<<SampleUser>>)
            ELSE IF session = Null THEN NoItem ELSE Stringify(session)]
  /\ cartCount = 0
  /\ notice = <<>>
  /\ location = "index.html"
  /\ loaded = FALSE
  /\ authLink = ""
  /\ pricing = ""
  /\ cartView = NoCartView
  /\ checkout = NoCheckout
  /\ last = Call("none", <<>>, Falsy)

NextStore ==
  \/ \E p \in Pages : DOMContentLoaded(p)
  \/ \E e \in Emails, pw \in Passwords : LoginUser(e, pw)
  \/ Logout
  \/ \E product \in Products : AddToCart(product)
  \/ \E id \in Ids : RemoveFromCart(id)
  \/ \E id \in Ids, delta \in Deltas : ChangeQuantity(id, delta)
  \/ Submit

SpecStore == InitStore /\ [][NextStore]_vars

(***************************************************************************)
(* The same program started on a store whose records may be absent or hold *)
(* text that JSON.parse rejects.                                           *)
(***************************************************************************)
\* a stored text that does not parse; val is what the text was written from
Garbled(v) == [kind |-> "corrupt", val |-> v]

SampleCart ==
  <<[id |-> "kit", name |-> "Test Kit", price |-> 10, quantity |-> MinOrder]>>

SampleSession == <<[email |-> "a@x.com"]>>

\* what a key may hold at the start: nothing, unreadable text, the garbled
\* text of a value, or the value's JSON
Entries(v) == {NoItem, Corrupt, Garbled(v), Stringify(v)}

InitCorrupt ==
  /\ \E cart \in Entries(SampleCart), users \in Entries(<<SampleUser>>),
        session \in Entries(SampleSession) :
       localStorage =
         [k \in Keys |->
            IF k = CART_KEY THEN cart
            ELSE IF k = USER_KEY THEN users
            ELSE session]
  /\ cartCount = 0
  /\ notice = <<>>
  /\ location = "index.html"
  /\ loaded = FALSE
  /\ authLink = ""
  /\ pricing = ""
  /\ cartView = NoCartView
  /\ checkout = NoCheckout
  /\ last = Call("none", <<>>, Falsy)

SpecCorrupt == InitCorrupt /\ [][Next]_vars

(***************************************************************************)
(* The window followed above together with a second browser context on the *)
(* same localStorage: the second context's logout listener changes the     *)
(* store and leaves this window's document as it is.                       *)
(***************************************************************************)
LogoutElsewhere ==
  /\ isLoggedIn(localStorage)
  /\ localStorage' = saveCart(logoutUser(localStorage), <<>>)
  /\ last' = Call("logoutElsewhere", <<>>, Falsy)
  /\ UNCHANGED <<cartCount, notice, location, loaded, authLink, pricing,
                 cartView, checkout>>

NextShared ==
  \/ NextStore
  \/ LogoutElsewhere

SpecShared == InitStore /\ [][NextShared]_vars

(***************************************************************************)
(* Properties                                                              *)
(***************************************************************************)
\* what the store holds, read off the raw entries
StoredSession == localStorage[SESSION_KEY]
StoredUsers == localStorage[USER_KEY].val
StoredCart == localStorage[CART_KEY].val
SessionAbsent == StoredSession.kind # "json"

RECURSIVE Units(_)
Units(items) == IF items = <<>> THEN 0 ELSE Head(items).quantity + Units(Tail(items))

HasId(items, id) == \E i \in 1..Len(items) : items[i].id = id

\* C1: addToCart(product) invoked while no session exists leaves the whole
\* store, the cart record included, as it was; it shows the log-in notice and
\* sets the location to the login page.
C1_AddToCartNeedsSession ==
  [][\A product \in Products :
       (SessionAbsent /\ AddToCart(product)) =>
         /\ localStorage' = localStorage
         /\ notice' = <<"login">>
         /\ location' = "login.html"]_vars

\* a cart with items in it and no session, after addToCart has run
C1_Witness ==
  /\ last.op = "addToCart"
  /\ SessionAbsent
  /\ StoredCart # <<>>
  /\ notice = <<"login">>
  /\ location = "login.html"

\* C2: after renderCheckout the checkout is Blocked (form hidden, no submit
\* listener) exactly when there is no session, or the cart is empty, or the
\* quantities sum to less than 50; otherwise it is Ready (order summary shown,
\* submit listener attached, form left visible).
C2_CheckoutBlockedIff ==
  (last.op = "DOMContentLoaded" /\ location = "checkout.html") =>
    LET blocked == checkout.formDisplay = "none" /\ ~checkout.submit
        ready == /\ checkout.summary = "order"
                 /\ checkout.formDisplay # "none"
                 /\ checkout.submit
    IN /\ blocked <=> (SessionAbsent \/ StoredCart = <<>> \/ Units(StoredCart) < 50)
       /\ ~blocked <=> ready

\* a single line of 60 units is Ready
C2_Witness ==
  /\ last.op = "DOMContentLoaded"
  /\ location = "checkout.html"
  /\ Len(StoredCart) = 1
  /\ StoredCart[1].quantity = 60
  /\ checkout.submit
  /\ checkout.summary = "order"

\* C3: changeQuantity(id, delta) leaves the cart record as it was when no item
\* has that id; otherwise the item with that id gets quantity
\* max(1, old quantity + delta), no item is removed and no other item changes.
C3_ChangeQuantity ==
  [][\A id \in Ids, delta \in Deltas :
       ChangeQuantity(id, delta) =>
         LET old == StoredCart
             new == StoredCart'
         IN IF ~HasId(old, id)
              THEN localStorage' = localStorage
              ELSE /\ Len(new) = Len(old)
                   /\ \A i \in 1..Len(old) :
                        IF old[i].id = id
                          THEN new[i] =
                                 [old[i] EXCEPT !.quantity =
                                    IF @ + delta >= 1 THEN @ + delta ELSE 1]
                          ELSE new[i] = old[i]]_vars

\* changeQuantity(id, -100) has run and left a line at quantity 1, next to
\* another line
C3_Witness ==
  /\ last.op = "changeQuantity"
  /\ last.args = <<-100>>
  /\ Len(StoredCart) = 2
  /\ \E i \in 1..2 : StoredCart[i].quantity = 1
  /\ \E i \in 1..2 : StoredCart[i].quantity > 1

\* C4: every item of the persisted cart has a quantity of at least 1.
C4_QuantityAtLeastOne ==
  \A i \in 1..Len(StoredCart) :
    StoredCart[i].quantity \in Int /\ StoredCart[i].quantity >= 1

\* a decrement has run and a line stands at the floor of 1
C4_Witness ==
  /\ last.op = "changeQuantity"
  /\ last.args = <<-1>>
  /\ \E i \in 1..Len(StoredCart) : StoredCart[i].quantity = 1

\* C5: no two items of the persisted cart have the same id.
C5_UniqueIds ==
  \A i, j \in 1..Len(StoredCart) :
    StoredCart[i].id = StoredCart[j].id => i = j

\* addToCart has run on a cart that held the product already, next to another
C5_Witness ==
  /\ last.op = "addToCart"
  /\ Len(StoredCart) = 2
  /\ \E i \in 1..2 : StoredCart[i].quantity = 2 /\ notice = <<"added", StoredCart[i].name>>

\* C6: registerUser is rejected exactly when one of email, phone, company,
\* password is empty or a user with exactly that email is in the directory; a
\* rejected registration leaves the user directory and the session record as
\* they were.
C6_RegisterRejection ==
  [][\A d \in Details :
       RegisterUser(d) =>
         LET users == StoredUsers
             rejected == ~last'.ret.truthy
         IN /\ rejected <=>
                 \/ d.email = "" \/ d.phone = "" \/ d.company = "" \/ d.password = ""
                 \/ \E i \in 1..Len(users) : users[i].email = d.email
            /\ rejected =>
                 /\ localStorage'[USER_KEY] = localStorage[USER_KEY]
                 /\ Len(StoredUsers') = Len(users)
                 /\ StoredSession' = StoredSession]_vars

\* a registration was rejected while the directory held both users and a
\* session existed
C6_Witness ==
  /\ last.op = "registerUser"
  /\ ~last.ret.truthy
  /\ Len(StoredUsers) = 2
  /\ ~SessionAbsent

\* C7: a successful registerUser appends the new user at the end of the
\* directory, leaves the earlier entries as they were and makes the session
\* that user's email, whatever session there was.
C7_RegisterSuccess ==
  [][\A d \in Details :
       (RegisterUser(d) /\ last'.ret.truthy) =>
         /\ StoredUsers' =
              StoredUsers \o <<[email |-> d.email, phone |-> d.phone,
                                company |-> d.company, password |-> d.password]>>
         /\ StoredSession' = Stringify(<<[email |-> d.email]>>)]_vars

\* the second user has just registered and holds the session
C7_Witness ==
  /\ last.op = "registerUser"
  /\ last.ret.truthy
  /\ Len(StoredUsers) = 2
  /\ last.ret.object = <<StoredUsers[2]>>
  /\ StoredSession = Stringify(<<[email |-> StoredUsers[2].email]>>)

\* C8: loginUser(email, password) succeeds iff the directory holds a user with
\* that email and that password; on success the session is that email, on
\* rejection the session record is as it was.
C8_Login ==
  [][\A email \in Emails, password \in Passwords :
       LoginUser(email, password) =>
         LET users == StoredUsers
             ok == last'.ret.truthy
         IN /\ ok <=> \E i \in 1..Len(users) :
                        users[i].email = email /\ users[i].password = password
            /\ ok => StoredSession' = Stringify(<<[email |-> email]>>)
            /\ ~ok => StoredSession' = StoredSession]_vars

\* a login was rejected while the directory held both users and the first
\* one's session existed: it stays
C8_Witness ==
  /\ last.op = "loginUser"
  /\ ~last.ret.truthy
  /\ Len(StoredUsers) = 2
  /\ StoredSession = Stringify(<<[email |-> StoredUsers[1].email]>>)

\* C9: after the logout listener has run there is no session (isLoggedIn() is
\* false) and the persisted cart is empty.
C9_Logout ==
  [][Logout =>
       /\ StoredSession' = NoItem
       /\ ~isLoggedIn(localStorage')
       /\ StoredCart' = <<>>]_vars

\* logout has run after something had been added to the cart
C9_Witness ==
  /\ last.op = "logout"
  /\ Len(notice) = 2
  /\ notice[1] = "added"
  /\ StoredCart = <<>>
  /\ SessionAbsent

\* C10: the discount rate either view shows is the tier of the cart's total
\* quantity: 0 below 100, 0.05 from 100 to 199, 0.10 from 200 to 299, 0.15 from
\* 300 to 499 and 0.20 from 500 up (rates in hundredths).
TierOf(totalQty) ==
  CASE totalQty < 100 -> 0
    [] totalQty \in 100..199 -> 5
    [] totalQty \in 200..299 -> 10
    [] totalQty \in 300..499 -> 15
    [] totalQty >= 500 -> 20

C10_DiscountTiers ==
  last.op = "DOMContentLoaded" =>
    /\ cartView.kind = "table" =>
         cartView.discountRate = TierOf(Units(StoredCart))
    /\ checkout.summary = "order" =>
         checkout.discountRate = TierOf(Units(StoredCart))

\* the cart view of two lines of 299 and 1 units shows the 0.15 tier
C10_Witness ==
  /\ last.op = "DOMContentLoaded"
  /\ cartView.kind = "table"
  /\ Len(StoredCart) = 2
  /\ Units(StoredCart) = 300
  /\ cartView.discountRate = 15

\* an amount read back off its displayed digits, in cents
Shown(amount) == amount.whole * 100 + amount.frac

\* the sum of price times quantity over the items, in dollars
RECURSIVE Worth(_)
Worth(items) ==
  IF items = <<>> THEN 0
  ELSE Head(items).price * Head(items).quantity + Worth(Tail(items))

\* the views were rendered by the load that was the last thing to happen
JustLoaded == last.op = "DOMContentLoaded"

\* C11: in a rendered breakdown, of the cart page or of the checkout page,
\* the subtotal is the sum of price times quantity over the cart's items, the
\* discount amount is the subtotal times the discount rate, and the grand
\* total is the subtotal minus the discount amount.
C11_Totals ==
  /\ cartView.kind = "table" =>
       LET s == Shown(cartView.grandTotalRaw)
           d == Shown(cartView.discountAmount)
           g == Shown(cartView.grandTotal)
       IN /\ d * 100 = s * cartView.discountRate
          /\ g = s - d
          /\ JustLoaded => s = 100 * Worth(StoredCart)
  /\ checkout.summary = "order" =>
       LET s == Shown(checkout.subtotal)
           d == Shown(checkout.discountAmount)
           g == Shown(checkout.total)
       IN /\ d * 100 = s * checkout.discountRate
          /\ g = s - d
          /\ JustLoaded => s = 100 * Worth(StoredCart)

\* the cart page shows 10 x 250: 2500.00, less 250.00, is 2250.00
C11_Witness ==
  /\ JustLoaded
  /\ cartView.kind = "table"
  /\ StoredCart = <<[id |-> "kit", name |-> "Test Kit", price |-> 10,
                     quantity |-> 250]>>
  /\ cartView.grandTotalRaw = [whole |-> 2500, frac |-> 0]
  /\ cartView.discountAmount = [whole |-> 250, frac |-> 0]
  /\ cartView.grandTotal = [whole |-> 2250, frac |-> 0]

\* C12: for every store with a session and a cart of at least the minimum
\* order quantity, the cart page and the checkout page show the same total
\* quantity, subtotal, discount rate, discount amount and grand total: what
\* one page has just rendered is what the other renders from the same store.
C12_ViewsAgree ==
  (~SessionAbsent /\ Units(StoredCart) >= MinOrder /\ JustLoaded) =>
    /\ checkout.summary = "order" =>
         LET c == renderCart(localStorage) IN
           /\ c.kind = "table"
           /\ checkout.totalQty = c.totalQty
           /\ checkout.subtotal = c.grandTotalRaw
           /\ checkout.discountRate = c.discountRate
           /\ checkout.discountAmount = c.discountAmount
           /\ checkout.total = c.grandTotal
    /\ cartView.kind = "table" =>
         LET k == renderCheckout(localStorage) IN
           /\ k.summary = "order"
           /\ cartView.totalQty = k.totalQty
           /\ cartView.grandTotalRaw = k.subtotal
           /\ cartView.discountRate = k.discountRate
           /\ cartView.discountAmount = k.discountAmount
           /\ cartView.grandTotal = k.total

\* the checkout page shows 299 x 10 + 1 x 4 at 15%: 2994.00 - 449.10 = 2544.90
C12_Witness ==
  /\ JustLoaded
  /\ ~SessionAbsent
  /\ Len(StoredCart) = 2
  /\ checkout.summary = "order"
  /\ checkout.totalQty = 300
  /\ checkout.discountRate = 15
  /\ checkout.subtotal = [whole |-> 2994, frac |-> 0]
  /\ checkout.discountAmount = [whole |-> 449, frac |-> 10]
  /\ checkout.total = [whole |-> 2544, frac |-> 90]

\* the item a product becomes when addToCart pushes it
NewItem(product) ==
  [id |-> product.id, name |-> product.name, price |-> product.price,
   quantity |-> 1]

\* C13: addToCart(product) with a session: if the cart has an item with the
\* product's id that item's quantity goes up by exactly 1, otherwise one new
\* item with quantity 1 is appended at the end; every other item, and the
\* order of the items, stays as it was.
C13_AddToCart ==
  [][\A product \in Products :
       (AddToCart(product) /\ ~SessionAbsent) =>
         LET old == StoredCart
             new == StoredCart'
         IN
           IF HasId(old, product.id)
             THEN /\ Len(new) = Len(old)
                  /\ \A i \in 1..Len(old) :
                       IF old[i].id = product.id
                         THEN new[i] = [old[i] EXCEPT !.quantity = @ + 1]
                         ELSE new[i] = old[i]
             ELSE /\ Len(new) = Len(old) + 1
                  /\ new[Len(new)] = NewItem(product)
                  /\ \A i \in 1..Len(old) : new[i] = old[i]]_vars

\* addToCart has raised the first of two items to 2 and left the second at 1
C13_Witness ==
  /\ last.op = "addToCart"
  /\ ~SessionAbsent
  /\ Len(StoredCart) = 2
  /\ StoredCart[1].quantity = 2
  /\ StoredCart[2].quantity = 1

\* C14: after removeFromCart(id) the cart has no item with that id, and every
\* other item is there with its fields and in its place among the others; for
\* an id no item has, the cart's contents are what they were.
C14_RemoveFromCart ==
  [][\A id \in Ids :
       RemoveFromCart(id) =>
         /\ ~HasId(StoredCart', id)
         /\ StoredCart' = SelectSeq(StoredCart, LAMBDA item : item.id # id)
         /\ ~HasId(StoredCart, id) => StoredCart' = StoredCart]_vars

\* removeFromCart has taken the strip, added after the kit, out of the cart
C14_Witness ==
  /\ last.op = "removeFromCart"
  /\ notice = <<"added", "Test Strip">>
  /\ Len(StoredCart) = 1
  /\ StoredCart[1].id = "kit"

\* the quantity of the first item with this id
QuantityOf(items, id) ==
  items[CHOOSE i \in 1..Len(items) :
          items[i].id = id /\ \A j \in 1..(i - 1) : items[j].id # id].quantity

\* C15 as stated: with no session, addToCart, removeFromCart and
\* changeQuantity all leave the persisted cart as it was.
C15_AllGated ==
  [][(SessionAbsent /\
        \/ \E product \in Products : AddToCart(product)
        \/ \E id \in Ids : RemoveFromCart(id)
        \/ \E id \in Ids, delta \in Deltas : ChangeQuantity(id, delta))
       => StoredCart' = StoredCart]_vars

\* C15: of the cart operations only addToCart looks at the session.  With no
\* session addToCart leaves the cart record as it was, while removeFromCart
\* still takes the item with the id out of the persisted cart and
\* changeQuantity still sets the quantity of the item with the id to
\* max(1, quantity + delta).
C15_OnlyAddToCartGated ==
  [][SessionAbsent =>
       /\ \A product \in Products :
            AddToCart(product) =>
              localStorage'[CART_KEY] = localStorage[CART_KEY]
       /\ \A id \in Ids :
            (RemoveFromCart(id) /\ HasId(StoredCart, id)) =>
              /\ ~HasId(StoredCart', id)
              /\ Len(StoredCart') < Len(StoredCart)
       /\ \A id \in Ids, delta \in Deltas :
            (ChangeQuantity(id, delta) /\ HasId(StoredCart, id)) =>
              /\ HasId(StoredCart', id)
              /\ QuantityOf(StoredCart', id)
                   = (IF QuantityOf(StoredCart, id) + delta > 1
                        THEN QuantityOf(StoredCart, id) + delta ELSE 1)]_vars

\* with no session, changeQuantity(+1) has taken an item from 1 to 2 (no
\* stored cart starts with a quantity of 2, and addToCart needs a session)
C15_Witness ==
  /\ SessionAbsent
  /\ last.op = "changeQuantity"
  /\ last.args = <<1>>
  /\ Len(StoredCart) = 1
  /\ StoredCart[1].quantity = 2

\* C16: a submission of the checkout form in the Ready state (the order
\* summary is shown and the form is there to submit) leaves the persisted
\* cart empty and the displayed count at 0, and leaves the session record and
\* the user directory as they were.
C16_Submit ==
  [][Submit =>
       /\ checkout.summary = "order"
       /\ localStorage'[CART_KEY] = [kind |-> "json", val |-> <<>>]
       /\ cartCount' = 0
       /\ localStorage'[SESSION_KEY] = localStorage[SESSION_KEY]
       /\ localStorage'[USER_KEY] = localStorage[USER_KEY]]_vars

\* an order has been submitted: thanks shown, cart empty, count 0, and the
\* session and the directory still there
C16_Witness ==
  /\ last.op = "submit"
  /\ notice = <<"thanks">>
  /\ StoredCart = <<>>
  /\ cartCount = 0
  /\ ~SessionAbsent
  /\ Len(StoredUsers) >= 1

CartWriters ==
  {"addToCart", "removeFromCart", "changeQuantity", "submit", "logout"}

\* C17: after every operation that writes the cart (addToCart,
\* removeFromCart, changeQuantity, checkout submission, logout) the displayed
\* cart count is the sum of the quantities of the items in the persisted cart.
C17_CountIsSum ==
  last.op \in CartWriters => cartCount = Units(StoredCart)

\* changeQuantity has made a two-line cart of 50 units, and 50 is displayed
C17_Witness ==
  /\ last.op = "changeQuantity"
  /\ Len(StoredCart) = 2
  /\ Units(StoredCart) = 50
  /\ cartCount = 50

\* the views of the loaded document show what the store holds: the link reads
\* "Logout" and the wholesale prices are shown exactly when a session exists,
\* and the cart container, where the document has one, holds the cart's
\* rendering
ViewsReflectStore ==
  /\ authLink = (IF SessionAbsent THEN "Login" ELSE "Logout")
  /\ pricing = (IF SessionAbsent THEN "hidden" ELSE "shown")
  /\ HasCartContainer => cartView = renderCart(localStorage)

\* C18: after every cart mutation (addToCart, removeFromCart, changeQuantity)
\* and every auth state change (a successful register or login, a logout),
\* the views of the document that stays loaded (cart table, pricing
\* visibility, login/logout link) reflect the store the operation produced.
C18_ViewsReRendered ==
  (/\ loaded
   /\ last.op \in {"addToCart", "removeFromCart", "changeQuantity",
                   "registerUser", "loginUser", "logout"}
   /\ last.op \in {"registerUser", "loginUser"} => last.ret.truthy)
    => ViewsReflectStore

\* C19: running the view renderers again with the store unchanged leaves the
\* rendered output (cart view, cart count, pricing visibility, link) as it
\* was and writes no record: a load never changes the store; a second load of
\* the same page right after the first renders the same; and a removeFromCart
\* that leaves the cart's contents as they were, coming right after a
\* rendering, re-renders the same cart view and count.
C19_Idempotent ==
  [][/\ \A p \in Pages :
          DOMContentLoaded(p) =>
            /\ localStorage' = localStorage
            /\ (JustLoaded /\ location = p) =>
                 /\ cartView' = cartView
                 /\ cartCount' = cartCount
                 /\ pricing' = pricing
                 /\ authLink' = authLink
                 /\ checkout' = checkout
     /\ \A id \in Ids :
          (/\ RemoveFromCart(id)
           /\ StoredCart' = StoredCart
           /\ last.op \in {"DOMContentLoaded", "removeFromCart"}) =>
            /\ cartView' = cartView
            /\ cartCount' = cartCount
            /\ pricing' = pricing]_vars

\* the cart page's table and count, rendered again by a removeFromCart that
\* found nothing to remove
C19_Witness ==
  /\ last.op = "removeFromCart"
  /\ loaded
  /\ HasCartContainer
  /\ cartView.kind = "table"
  /\ cartView.totalQty = 3
  /\ cartCount = 3
  /\ Len(StoredCart) = 2
  /\ pricing = "shown"

\* the record under this key is absent or is text that does not parse
Unreadable(k) == localStorage[k].kind # "json"

C21_UsersOnlyGrow ==
  [][/\ Len(StoredUsers') >= Len(StoredUsers)
     /\ \A i \in 1..Len(StoredUsers) : StoredUsers'[i] = StoredUsers[i]]_vars

\* a second user has been registered after the first, who is still first
C21_Witness ==
  /\ last.op = "registerUser"
  /\ last.ret.truthy
  /\ Len(StoredUsers) = 2
  /\ StoredUsers[2] = last.ret.object[1]
  /\ StoredUsers[1].email # StoredUsers[2].email

\* C22: in every state reached from an empty store, email is a unique key of
\* the user directory: no two of its entries have the same email.
C22_EmailUnique ==
  \A i, j \in 1..Len(StoredUsers) :
    StoredUsers[i].email = StoredUsers[j].email => i = j

\* with two users in the directory, a registration has just been rejected
C22_Witness ==
  /\ last.op = "registerUser"
  /\ ~last.ret.truthy
  /\ Len(StoredUsers) = 2
  /\ {StoredUsers[1].email, StoredUsers[2].email} = Emails

\* C23: a checkout submission completes (thanks shown, cart cleared) only if,
\* at the moment of the submission, a session exists and the persisted cart
\* holds at least the minimum order quantity, also when the store was changed
\* after the checkout view was rendered.
C23_SubmitChecksStore ==
  [][Submit => (~SessionAbsent /\ Units(StoredCart) >= MinOrder)]_vars

\* C24: the three records are independent: addToCart, removeFromCart,
\* changeQuantity and the checkout submission leave the session and the user
\* directory as they were; registerUser and loginUser leave the cart as it
\* was; loginUser and the logout leave the user directory as it was.  (The
\* operation a step performs is the one it records in last.)
C24_Frames ==
  [][/\ last'.op \in {"addToCart", "removeFromCart", "changeQuantity", "submit"}
          => /\ localStorage'[SESSION_KEY] = localStorage[SESSION_KEY]
             /\ localStorage'[USER_KEY] = localStorage[USER_KEY]
     /\ last'.op \in {"registerUser", "loginUser"}
          => localStorage'[CART_KEY] = localStorage[CART_KEY]
     /\ last'.op \in {"loginUser", "logout"}
          => localStorage'[USER_KEY] = localStorage[USER_KEY]]_vars

\* a login has succeeded over a cart that holds items, and they are there
C24_Witness ==
  /\ last.op = "loginUser"
  /\ last.ret.truthy
  /\ Len(StoredCart) = 2
  /\ Len(StoredUsers) = 2

\* C25: in every state reached from an empty store, when a session exists
\* its email is the email of a user in the user directory.
C25_SessionUserExists ==
  ~SessionAbsent =>
    \E i \in 1..Len(StoredUsers) :
      StoredUsers[i].email = StoredSession.val[1].email

\* the second of two registered users has logged in after the first was
\* logged in by the registration
C25_Witness ==
  /\ last.op = "loginUser"
  /\ last.ret.truthy
  /\ Len(StoredUsers) = 2
  /\ StoredSession.kind = "json"
  /\ StoredSession.val[1].email = StoredUsers[1].email

\* C26: in every state reached from an empty store by complete operations, a
\* persisted cart that is not empty implies that a session exists: when
\* nobody is logged in the cart is empty.
C26_CartNeedsSession ==
  StoredCart # <<>> => ~SessionAbsent

\* after items were added, a logout has left no session and an empty cart
C26_Witness ==
  /\ last.op = "logout"
  /\ SessionAbsent
  /\ notice = <<"added", "Test Kit">>
  /\ localStorage[CART_KEY] = [kind |-> "json", val |-> <<>>]
  /\ cartCount = 0

=============================================================================
